---- MODULE Spec2Model ----
(***************************************************************************)
(* Model of the index aggregation code of indian-stock-api:                *)
(*   src/app/api/index_api.py  (copy "app")                                *)
(*   src/api/index_api.py      (copy "api")                                *)
(*   src/app/api/nse_data_fetcher.py, src/app/api/stock_api.py (further    *)
(*   copies of get_nifty_50_symbols: "fetcher", "stock")                   *)
(*                                                                         *)
(* Numbers are fixed-point integers counting thousandths (150.0 is 150000),*)
(* so that round(x, 2) is a real conversion.  Python values are tagged     *)
(* records: None, a number, float NaN, or a non-numeric string.            *)
(***************************************************************************)
EXTENDS Integers, Sequences, FiniteSets, TLC

VARIABLES pc, copy, endpoint, remote, backend, calls, symbols_to_fetch, idx,
          results, response, symbol, answer, snapshot, prev, served

vars == <<pc, copy, endpoint, remote, backend, calls, symbols_to_fetch, idx,
          results, response, symbol, answer, snapshot, prev, served>>

\* ------------------------------------------------------------------ bounds
\* Prices offered by the backend are 0, 50, .., 50 * MaxPriceSteps (and 90 and 0.004).
MaxPriceSteps == 4
\* Longest constituent list a remote CSV carries (besides the 7-symbol one).
MaxRemoteLen == 3
\* Longest cycle of answers the per-symbol backend runs through.
MaxPattern == 2
\* Requests one application serves in a row (the first, then repeats of it).
MaxRequests == 2

\* ------------------------------------------------------------ Python values
None == [t |-> "none"]
NaN == [t |-> "nan"]
Absent == [t |-> "absent"]
Num(n) == [t |-> "num", n |-> n]
\* A string is the sequence of the pieces it is formatted from.
Str(s) == [t |-> "str", s |-> s]

IsNum(v) == v.t = "num"

\* bool(v): None, 0 and 0.0 are falsy; NaN and a non-empty string are truthy.
Truthy(v) ==
    CASE v.t = "none" -> FALSE
      [] v.t = "num" -> v.n # 0
      [] v.t = "nan" -> TRUE
      [] v.t = "str" -> v.s # <<>>

\* The integer nearest to num / den (den # 0), ties to the even neighbour.
RoundDiv(num, den) ==
    LET n == IF den < 0 THEN 0 - num ELSE num
        d == IF den < 0 THEN 0 - den ELSE den
        q == n \div d
        r == n % d
    IN  IF 2 * r < d THEN q
        ELSE IF 2 * r > d THEN q + 1
        ELSE IF q % 2 = 0 THEN q ELSE q + 1

\* round(x, 2) of a number of thousandths: the nearest hundredth.
Round2(n) == RoundDiv(n, 10) * 10

\* round(((price - low) / price_range) * 100, 2), in thousandths of a percent.
\* The quotient part * 10000 / whole is taken in two steps of 100, which keeps
\* every intermediate product small.
RoundPercent(part, whole) ==
    LET n == IF whole < 0 THEN 0 - part ELSE part
        d == IF whole < 0 THEN 0 - whole ELSE whole
        q1 == (n * 100) \div d
        r1 == (n * 100) % d
        q2 == (r1 * 100) \div d
        r2 == (r1 * 100) % d
        h == q1 * 100 + q2
    IN  10 * (IF 2 * r2 < d THEN h
              ELSE IF 2 * r2 > d THEN h + 1
              ELSE IF h % 2 = 0 THEN h ELSE h + 1)

\* a >= b as Python evaluates it: "raise" is a TypeError (str against a number),
\* any comparison with NaN is false.
Ge(a, b) ==
    CASE a.t = "num" /\ b.t = "num" -> IF a.n >= b.n THEN "true" ELSE "false"
      [] a.t = "str" /\ b.t = "str" -> "true"
      [] a.t = "nan" /\ b.t \in {"num", "nan"} -> "false"
      [] b.t = "nan" /\ a.t \in {"num", "nan"} -> "false"
      [] OTHER -> "raise"

\* a - b: a number, NaN, or "raise" (TypeError) when either side is no number.
Minus(a, b) ==
    CASE a.t = "num" /\ b.t = "num" -> Num(a.n - b.n)
      [] a.t \in {"num", "nan"} /\ b.t \in {"num", "nan"} -> NaN
      [] OTHER -> [t |-> "raise"]

\* ----------------------------------------------- fetch_single_stock_metrics
NSE_SUFFIX == ".NS"

TickerSymbol(sym) == <<sym, NSE_SUFFIX>>

NSE_DETAIL_URL(sym) == <<"https://www.nseindia.com/get-quotes/equity?symbol=", sym>>

\* timeout of the one-day history request in each copy
HistoryTimeout(c) == IF c = "app" THEN 15 ELSE 5

\* info.get(key, default)
InfoGet(info, key, default) == IF info[key] = Absent THEN default ELSE info[key]

\* last_price = info.get('previousClose', info.get('regularMarketPreviousClose'))
InfoLastPrice(info) ==
    InfoGet(info, "previousClose", InfoGet(info, "regularMarketPreviousClose", None))

\* Variant: the history fallback is guarded by `if not last_price`.
HistoryStepIfFalsy(c, sym, last_price, hist) ==
    IF Truthy(last_price)
    THEN [exc |-> "none", price |-> last_price, requests |-> <<>>]
    ELSE LET req == <<[ticker |-> TickerSymbol(sym), period |-> "1d",
                       interval |-> "1d", timeout |-> HistoryTimeout(c)]>>
         IN  CASE hist.k = "raise" -> [exc |-> "RequestException", price |-> None, requests |-> req]
               [] hist.k = "empty" -> [exc |-> "none", price |-> None, requests |-> req]
               [] hist.k = "nocol" -> [exc |-> "KeyError", price |-> None, requests |-> req]
               [] hist.k = "rows" -> [exc |-> "none", price |-> hist.close, requests |-> req]

\* The history fallback: taken only when last_price is None.
\* [exc, price, requested]
HistoryStep(c, sym, last_price, hist) ==
    IF last_price # None
    THEN [exc |-> "none", price |-> last_price, requests |-> <<>>]
    ELSE LET req == <<[ticker |-> TickerSymbol(sym), period |-> "1d",
                       interval |-> "1d", timeout |-> HistoryTimeout(c)]>>
         IN  CASE hist.k = "raise" -> [exc |-> "RequestException", price |-> None, requests |-> req]
               [] hist.k = "empty" -> [exc |-> "none", price |-> None, requests |-> req]
               [] hist.k = "nocol" -> [exc |-> "KeyError", price |-> None, requests |-> req]
               [] hist.k = "rows" -> [exc |-> "none", price |-> hist.close, requests |-> req]

\* Variant: the range test is `price_range != 0`.
LowNearnessNonzeroRange(price, low_52w, high_52w) ==
    IF ~(Truthy(price) /\ Truthy(low_52w) /\ Truthy(high_52w))
    THEN [exc |-> "none", value |-> None]
    ELSE LET ge == Ge(price, low_52w)
         IN  IF ge = "raise" THEN [exc |-> "TypeError", value |-> None]
             ELSE IF ge = "false" THEN [exc |-> "none", value |-> None]
             ELSE LET price_range == Minus(high_52w, low_52w)
                  IN  IF price_range.t = "raise" THEN [exc |-> "TypeError", value |-> None]
                      ELSE IF price_range.t = "num" /\ price_range.n # 0
                           THEN [exc |-> "none",
                                 value |-> Num(RoundPercent(price.n - low_52w.n, price_range.n))]
                           ELSE [exc |-> "none", value |-> Num(0)]

\* The nearness block: low_nearness_percent, or the exception it raises.
\* [exc, value]
LowNearness(price, low_52w, high_52w) ==
    IF ~(Truthy(price) /\ Truthy(low_52w) /\ Truthy(high_52w))
    THEN [exc |-> "none", value |-> None]
    ELSE LET ge == Ge(price, low_52w)
         IN  IF ge = "raise" THEN [exc |-> "TypeError", value |-> None]
             ELSE IF ge = "false" THEN [exc |-> "none", value |-> None]
             ELSE LET price_range == Minus(high_52w, low_52w)
                  IN  IF price_range.t = "raise" THEN [exc |-> "TypeError", value |-> None]
                      ELSE IF price_range.t = "num" /\ price_range.n > 0
                           THEN [exc |-> "none",
                                 value |-> Num(RoundPercent(price.n - low_52w.n, price_range.n))]
                           ELSE [exc |-> "none", value |-> Num(0)]

\* Variant: the truthiness test is applied to the rounded price.
LastPriceFieldRoundFirst(price) ==
    CASE price.t = "none" -> [exc |-> "none", value |-> None]
      [] price.t = "num" -> [exc |-> "none",
                            value |-> IF Round2(price.n) = 0 THEN None
                                      ELSE Num(Round2(price.n))]
      [] price.t = "nan" -> [exc |-> "none", value |-> NaN]
      [] price.t = "str" -> [exc |-> "ValueError", value |-> None]

\* round(float(price), 2) if price else None
\* [exc, value]
LastPriceField(price) ==
    IF ~Truthy(price) THEN [exc |-> "none", value |-> None]
    ELSE CASE price.t = "num" -> [exc |-> "none", value |-> Num(Round2(price.n))]
           [] price.t = "nan" -> [exc |-> "none", value |-> NaN]
           [] price.t = "str" -> [exc |-> "ValueError", value |-> None]

\* Variant: the detail link is built from the suffixed ticker symbol.
ErrorRecordTickerLink(sym) ==
    [symbol |-> sym,
     name |-> Str(<<"Error/No Data for ", sym>>),
     lastPrice |-> None,
     high52Week |-> None,
     low52Week |-> None,
     lowNearnessPercentage |-> None,
     upcomingEvents |-> <<>>,
     detailLink |-> <<"https://www.nseindia.com/get-quotes/equity?symbol=", sym, NSE_SUFFIX>>]

\* The record of the except branch.
ErrorRecord(sym) ==
    [symbol |-> sym,
     name |-> Str(<<"Error/No Data for ", sym>>),
     lastPrice |-> None,
     high52Week |-> None,
     low52Week |-> None,
     lowNearnessPercentage |-> None,
     upcomingEvents |-> <<>>,
     detailLink |-> NSE_DETAIL_URL(sym)]

Raised(e, reqs) == [exc |-> e, ret |-> [symbol |-> "?"], requests |-> reqs]

\* The body of the try block: what it returns, or the exception it raises.
\* [exc, ret, requests]
TryBody(c, sym, ans) ==
    IF ans.info.k = "raise" THEN Raised("RequestException", <<>>)
    ELSE IF ans.info.k = "none" THEN Raised("AttributeError", <<>>)
    ELSE LET info == ans.info
             h == HistoryStep(c, sym, InfoLastPrice(info), ans.history)
         IN  IF h.exc # "none" THEN Raised(h.exc, h.requests)
             ELSE LET price == h.price
                      high_52w == InfoGet(info, "fiftyTwoWeekHigh", None)
                      low_52w == InfoGet(info, "fiftyTwoWeekLow", None)
                      near == LowNearness(price, low_52w, high_52w)
                      last == LastPriceField(price)
                  IN  IF near.exc # "none" THEN Raised(near.exc, h.requests)
                      ELSE IF last.exc # "none" THEN Raised(last.exc, h.requests)
                      ELSE [exc |-> "none",
                            ret |-> [symbol |-> sym,
                                     name |-> InfoGet(info, "longName", Str(<<sym>>)),
                                     lastPrice |-> last.value,
                                     high52Week |-> high_52w,
                                     low52Week |-> low_52w,
                                     lowNearnessPercentage |-> near.value,
                                     upcomingEvents |-> <<>>,
                                     detailLink |-> NSE_DETAIL_URL(sym)],
                            requests |-> h.requests]

\* Variant: the handler is `except requests.exceptions.RequestException`.
ExceptHandlesRequestErrorsOnly(e) == e = "RequestException"

\* Variant: the body runs without a try/except around it.
ExceptHandlesNothing(e) == FALSE

\* `except Exception` handles every exception class the body raises.
ExceptHandles(e) == e \in {"RequestException", "AttributeError", "KeyError",
                           "TypeError", "ValueError"}

\* fetch_single_stock_metrics(symbol): [exc, ret, requests]; exc # "none" is an
\* exception leaving the function.
FetchSingleStockMetrics(c, sym, ans) ==
    LET b == TryBody(c, sym, ans)
    IN  IF b.exc # "none" /\ ExceptHandles(b.exc)
        THEN [exc |-> "none", ret |-> ErrorRecord(sym), requests |-> b.requests]
        ELSE b

\* ------------------------------------------------------- backend answers
PriceValues == {50000 * k : k \in 0..MaxPriceSteps} \cup {90000, 4}

\* What a field of the info record may hold.
FieldValues == {Absent, NaN, Str(<<"N/A">>)} \cup {Num(n) : n \in PriceValues}

InfoDicts ==
    [k : {"dict"},
     previousClose : FieldValues \cup {None},
     regularMarketPreviousClose : {Absent, Num(100000)},
     fiftyTwoWeekHigh : FieldValues,
     fiftyTwoWeekLow : FieldValues,
     longName : {Absent, Str(<<"Reliance Industries Limited">>)}]

\* ticker.info: raises, is None, or is a dict.
Infos == {[k |-> "raise"], [k |-> "none"]} \cup InfoDicts

\* ticker.history(...): raises, is empty, lacks the Close column, or has rows.
Histories == {[k |-> "raise"], [k |-> "empty"], [k |-> "nocol"],
              [k |-> "rows", close |-> Num(100000)], [k |-> "rows", close |-> NaN]}

Answers == {[info |-> i, history |-> h] : i \in InfoDicts, h \in Histories}
           \cup {[info |-> i, history |-> [k |-> "empty"]] : i \in Infos \ InfoDicts}

FetchSymbols == {"RELIANCE", "M&M"}

NoSnapshot == [exc |-> "unset"]
NoAnswer == [info |-> [k |-> "unset"]]
NoRemote == [k |-> "unset"]
NoResponse == [code |-> 0]

\* --------------------------------------- one call of the per-symbol fetch
InitFetch ==
    /\ pc = "call"
    /\ copy \in {"app", "api"}
    /\ symbol \in FetchSymbols
    /\ answer \in Answers
    /\ snapshot = NoSnapshot
    /\ endpoint = "none"
    /\ remote = NoRemote
    /\ backend = <<>>
    /\ calls = <<>>
    /\ symbols_to_fetch = [t |-> "unset"]
    /\ idx = 0
    /\ results = <<>>
    /\ response = NoResponse
    /\ prev = NoResponse
    /\ served = 0

FetchCall ==
    /\ pc = "call"
    /\ snapshot' = FetchSingleStockMetrics(copy, symbol, answer)
    /\ pc' = "returned"
    /\ UNCHANGED <<copy, endpoint, remote, backend, calls, symbols_to_fetch, idx,
                   results, response, symbol, answer, prev, served>>

NextFetch == FetchCall

SpecFetch == InitFetch /\ [][NextFetch]_vars

\* ------------------------------------------------ properties of one fetch
SnapshotKeys == {"symbol", "name", "lastPrice", "high52Week", "low52Week",
                 "lowNearnessPercentage", "upcomingEvents", "detailLink"}

\* The call has returned and the backend supplied an info dict.
ReturnedFromDict == pc = "returned" /\ answer.info.k = "dict"

\* What the try block raised for the call's inputs ("none": nothing).
BodyException == TryBody(copy, symbol, answer).exc

\* The inputs of the nearness block: price after the history fallback, low, high.
InPrice == HistoryStep(copy, symbol, InfoLastPrice(answer.info), answer.history)
InLow == InfoGet(answer.info, "fiftyTwoWeekLow", None)
InHigh == InfoGet(answer.info, "fiftyTwoWeekHigh", None)

\* price, low and high are all numbers and price >= low.
NumericInputsAtOrAboveLow ==
    /\ ReturnedFromDict
    /\ InPrice.exc = "none"
    /\ IsNum(InPrice.price) /\ IsNum(InLow) /\ IsNum(InHigh)
    /\ InPrice.price.n >= InLow.n

\* C2: fetch_single_stock_metrics never raises, whatever the backend does: it
\* returns a record with exactly the eight snapshot keys and the input symbol.
C2_NeverRaisesWellFormed ==
    pc = "returned" =>
        /\ snapshot.exc = "none"
        /\ DOMAIN snapshot.ret = SnapshotKeys
        /\ snapshot.ret.symbol = symbol

\* C2 witness: the price was not convertible to a number (float() raised
\* ValueError inside the try block) and the call still returned a record.
C2_Witness ==
    /\ pc = "returned"
    /\ BodyException = "ValueError"
    /\ snapshot.exc = "none"
    /\ snapshot.ret.symbol = symbol

\* C6 (as claimed): lowNearnessPercentage of every returned snapshot is null or
\* lies in [0, 100], also when the price is above the 52-week high.
C6_NearnessWithin0To100 ==
    (pc = "returned" /\ snapshot.exc = "none") =>
        LET near == snapshot.ret.lowNearnessPercentage
        IN  near = None \/ (IsNum(near) /\ 0 <= near.n /\ near.n <= 100000)

\* C7 (as claimed): with price, low, high each null or a number, nearness is null
\* exactly when one of them is null or price < low; 0 counts as available.
C7_NullExactlyWhenUnavailableOrBelowLow ==
    (/\ ReturnedFromDict
     /\ InPrice.exc = "none"
     /\ InPrice.price = None \/ IsNum(InPrice.price)
     /\ InLow = None \/ IsNum(InLow)
     /\ InHigh = None \/ IsNum(InHigh)) =>
        /\ snapshot.exc = "none"
        /\ snapshot.ret.lowNearnessPercentage = None <=>
               \/ InPrice.price = None
               \/ InLow = None
               \/ InHigh = None
               \/ InPrice.price.n < InLow.n

\* The four numeric examples of the nearness rules (thousandths of a percent).
NearnessExamples ==
    /\ LowNearness(Num(150000), Num(100000), Num(200000)).value = Num(50000)
    /\ LowNearness(Num(100000), Num(100000), Num(200000)).value = Num(0)
    /\ LowNearness(Num(200000), Num(100000), Num(200000)).value = Num(100000)
    /\ LowNearness(Num(100000), Num(100000), Num(100000)).value = Num(0)

\* C8 (as claimed): for non-null price, low, high with price >= low the result
\* is 0.0 when high - low == 0 and round(((price - low) / (high - low)) * 100, 2)
\* in every other case, high < low included.
C8_FormulaUnlessRangeZero ==
    /\ NearnessExamples
    /\ NumericInputsAtOrAboveLow =>
          /\ snapshot.exc = "none"
          /\ snapshot.ret.lowNearnessPercentage =
                IF InHigh.n - InLow.n = 0 THEN Num(0)
                ELSE Num(RoundPercent(InPrice.price.n - InLow.n, InHigh.n - InLow.n))

\* C8 (amended): for non-null price, low, high with price >= low the result is
\* null when one of the three is 0, else 0.0 when high - low <= 0, else
\* round(((price - low) / (high - low)) * 100, 2); the four examples hold.
C8_FormulaWhenRangePositive ==
    /\ NearnessExamples
    /\ NumericInputsAtOrAboveLow =>
          /\ snapshot.exc = "none"
          /\ snapshot.ret.lowNearnessPercentage =
                IF 0 \in {InPrice.price.n, InLow.n, InHigh.n} THEN None
                ELSE IF InHigh.n - InLow.n <= 0 THEN Num(0)
                ELSE Num(RoundPercent(InPrice.price.n - InLow.n, InHigh.n - InLow.n))

\* C8 witness: price 150, low 100, high 50 (high < low) returned nearness 0.0.
C8_Witness ==
    /\ NumericInputsAtOrAboveLow
    /\ InPrice.price = Num(150000) /\ InLow = Num(100000) /\ InHigh = Num(50000)
    /\ snapshot.ret.lowNearnessPercentage = Num(0)

\* C9: in every returned snapshot a null lastPrice comes with a null
\* lowNearnessPercentage.
C9_NullPriceNullNearness ==
    (pc = "returned" /\ snapshot.exc = "none") =>
        (snapshot.ret.lastPrice = None => snapshot.ret.lowNearnessPercentage = None)

\* C9 witness: the try block completed with no price (no last close, empty
\* history) while low and high were numbers; lastPrice and nearness are null.
C9_Witness ==
    /\ ReturnedFromDict
    /\ BodyException = "none"
    /\ InPrice.price = None
    /\ InLow = Num(100000) /\ InHigh = Num(200000)
    /\ snapshot.ret.lastPrice = None
    /\ snapshot.ret.lowNearnessPercentage = None

\* C10: when a step of the try block raises, the snapshot is named
\* "Error/No Data for {symbol}", its numeric fields are null and its detail link
\* is the quote-page URL with the raw symbol (no exchange suffix).
C10_ErrorSnapshot ==
    (pc = "returned" /\ BodyException # "none") =>
        /\ snapshot.exc = "none"
        /\ snapshot.ret.name = Str(<<"Error/No Data for ", symbol>>)
        /\ snapshot.ret.lastPrice = None
        /\ snapshot.ret.high52Week = None
        /\ snapshot.ret.low52Week = None
        /\ snapshot.ret.lowNearnessPercentage = None
        /\ snapshot.ret.detailLink =
             <<"https://www.nseindia.com/get-quotes/equity?symbol=", symbol>>

\* C10 witness: the nearness comparison raised (TypeError: a number against a
\* string) and the error snapshot was returned.
C10_Witness ==
    /\ pc = "returned"
    /\ BodyException = "TypeError"
    /\ snapshot.ret.name = Str(<<"Error/No Data for ", symbol>>)
    /\ snapshot.ret.detailLink =
         <<"https://www.nseindia.com/get-quotes/equity?symbol=", symbol>>

\* ------------------------------------------------- constituent resolvers
\* A returned list; a function that returns None returns the value None.
List(seq) == [t |-> "list", v |-> seq]

NoList == [t |-> "unset"]

\* symbol_list of the index_api copies ("app", "api") before the try block
NIFTY_FALLBACK ==
    <<"RELIANCE", "HDFCBANK", "TCS", "ICICIBANK", "INFY", "KOTAKBANK", "HINDUNILVR">>

\* the list stock_api.py returns from its except branch
STOCK_API_FALLBACK == <<"RELIANCE", "TCS", "HDFCBANK", "ICICIBANK", "INFY", "SBIN">>

SENSEX_30_LIST ==
    <<"RELIANCE", "HDFCBANK", "ICICIBANK", "INFY", "HINDUNILVR", "TCS", "KOTAKBANK",
      "AXISBANK", "SBIN", "LT", "ASIANPAINT", "MARUTI", "BAJFINANCE", "HCLTECH",
      "TITAN", "SUNPHARMA", "NESTLEIND", "ITC", "TATASTEEL", "POWERGRID",
      "INDUSINDBK", "ULTRACEMCO", "TECHM", "M&M", "TATASTEEL", "BAJAJFINSV",
      "HINDALCO", "WIPRO", "BHARTIARTL", "DRREDDY">>

get_sensex_30_symbols == List(SENSEX_30_LIST)

\* Symbols a remote CSV lists.
RemoteSymbols == {"RELIANCE", "TCS", "ADANIENT"}

SeqsUpTo(S, n) == UNION {[1..m -> S] : m \in 0..n}

\* The Symbol column of a well-formed CSV: any short list (the empty one is a CSV
\* with a header and no data rows), or exactly the seven fallback symbols.
RemoteLists == SeqsUpTo(RemoteSymbols, MaxRemoteLen) \cup {NIFTY_FALLBACK}

\* What the remote source does to one resolution.
RemoteFailures == {"warmup_timeout", "csv_timeout", "http_error", "bad_encoding",
                   "empty_body", "parse_error", "no_symbol_column"}

RemoteOutcomes == {[k |-> f] : f \in RemoteFailures}
                  \cup {[k |-> "ok", symbols |-> l] : l \in RemoteLists}

\* The try block of get_nifty_50_symbols: the exception it raises, or the list
\* df['Symbol'].tolist().
\* [exc, list]
RemoteTry(rem) ==
    CASE rem.k \in {"warmup_timeout", "csv_timeout", "http_error"} ->
             [exc |-> "RequestException", list |-> <<>>]
      [] rem.k = "bad_encoding" -> [exc |-> "UnicodeDecodeError", list |-> <<>>]
      [] rem.k = "empty_body" -> [exc |-> "EmptyDataError", list |-> <<>>]
      [] rem.k = "parse_error" -> [exc |-> "ParserError", list |-> <<>>]
      [] rem.k = "no_symbol_column" -> [exc |-> "KeyError", list |-> <<>>]
      [] rem.k = "ok" -> [exc |-> "none", list |-> rem.symbols]

\* get_nifty_50_symbols of each copy: all of them handle every exception of the
\* try block (RequestException, KeyError, Exception).
get_nifty_50_symbols(c, rem) ==
    LET r == RemoteTry(rem)
    IN  IF r.exc = "none" THEN List(r.list)
        ELSE CASE c \in {"app", "api"} -> List(NIFTY_FALLBACK)
               [] c = "stock" -> List(STOCK_API_FALLBACK)
               [] c = "fetcher" -> None

ResolverCopies == {"app", "api", "fetcher", "stock"}

\* ------------------------------------------- one call of a resolver
InitResolve ==
    /\ pc = "call"
    /\ \/ endpoint = "NIFTY50" /\ copy \in ResolverCopies /\ remote \in RemoteOutcomes
       \/ endpoint = "SENSEX" /\ copy \in {"app", "api"} /\ remote = NoRemote
    /\ symbols_to_fetch = NoList
    /\ backend = <<>>
    /\ calls = <<>>
    /\ idx = 0
    /\ results = <<>>
    /\ response = NoResponse
    /\ symbol = ""
    /\ answer = NoAnswer
    /\ snapshot = NoSnapshot
    /\ prev = NoResponse
    /\ served = 0

ResolveNifty ==
    /\ pc = "call"
    /\ endpoint = "NIFTY50"
    /\ symbols_to_fetch' = get_nifty_50_symbols(copy, remote)
    /\ pc' = "returned"
    /\ UNCHANGED <<copy, endpoint, remote, backend, calls, idx, results, response,
                   symbol, answer, snapshot, prev, served>>

ResolveSensex ==
    /\ pc = "call"
    /\ endpoint = "SENSEX"
    /\ symbols_to_fetch' = get_sensex_30_symbols
    /\ pc' = "returned"
    /\ UNCHANGED <<copy, endpoint, remote, backend, calls, idx, results, response,
                   symbol, answer, snapshot, prev, served>>

NextResolve == ResolveNifty \/ ResolveSensex

SpecResolve == InitResolve /\ [][NextResolve]_vars

\* C1 (as claimed): every copy of get_nifty_50_symbols returns a non-empty list,
\* never an empty list and never None, whatever the remote source does (a CSV
\* with a Symbol column and no data rows included).
C1_ResolverNeverEmpty ==
    (pc = "returned" /\ endpoint = "NIFTY50") =>
        /\ symbols_to_fetch # None
        /\ symbols_to_fetch.t = "list"
        /\ Len(symbols_to_fetch.v) > 0

\* ------------------------------------------------ aggregation endpoints
\* Answers the per-symbol backend gives during an aggregation.
GoodAnswer ==
    [info |-> [k |-> "dict", previousClose |-> Num(150000),
               regularMarketPreviousClose |-> Absent,
               fiftyTwoWeekHigh |-> Num(200000), fiftyTwoWeekLow |-> Num(100000),
               longName |-> Str(<<"Reliance Industries Limited">>)],
     history |-> [k |-> "empty"]]

\* no last close and an empty history: a record with lastPrice None
NoPriceAnswer ==
    [info |-> [k |-> "dict", previousClose |-> Absent,
               regularMarketPreviousClose |-> Absent,
               fiftyTwoWeekHigh |-> Num(200000), fiftyTwoWeekLow |-> Num(100000),
               longName |-> Absent],
     history |-> [k |-> "empty"]]

\* no last close, the price comes from the one-day history
HistoryAnswer ==
    [info |-> [k |-> "dict", previousClose |-> Absent,
               regularMarketPreviousClose |-> Absent,
               fiftyTwoWeekHigh |-> Absent, fiftyTwoWeekLow |-> Absent,
               longName |-> Absent],
     history |-> [k |-> "rows", close |-> Num(100000)]]

\* the info lookup raises
DownAnswer == [info |-> [k |-> "raise"], history |-> [k |-> "empty"]]

SampleAnswers == {GoodAnswer, NoPriceAnswer, HistoryAnswer, DownAnswer}

\* The backend during one request: a cycle of answers, one per call in turn.  A
\* cycle of length 1 is a backend that always answers alike.
Patterns == SeqsUpTo(SampleAnswers, MaxPattern) \ {<<>>}

\* The answer to the next call, given the calls made so far.
BackendAnswer(pat, made) == pat[(Len(made) % Len(pat)) + 1]

\* Variant: the warning branch is taken for an empty list only.
UsesWarningBranchEmptyOnly(c, ep, list) == c = "api" /\ ep = "NIFTY50" /\ list = <<>>

\* Variant: the warning branch is taken when the remote fetch failed.
UsesWarningBranchOnRemoteFailure(c, ep, list) ==
    c = "api" /\ ep = "NIFTY50" /\ remote.k \in RemoteFailures

\* get_nifty50_data of src/api/index_api.py:
\* `if not symbols_to_fetch or symbols_to_fetch == [the seven fallback symbols]`
UsesWarningBranch(c, ep, list) ==
    c = "api" /\ ep = "NIFTY50" /\ (list = <<>> \/ list = NIFTY_FALLBACK)

\* jsonify({...}) of the loop's result
SuccessResponse(ep, list, res) ==
    [code |-> 200,
     body |-> [status |-> "success",
               index |-> ep,
               total_constituents |-> Len(list),
               total_stocks_fetched |-> Len(res),
               data |-> res]]

\* jsonify({...}), 200 of the warning branch
WarningResponse(res) ==
    [code |-> 200,
     body |-> [status |-> "warning",
               message |-> "NSE data download failed. Using a small, cached list for demonstration/fallback.",
               data |-> res]]

\* An exception leaving the view: handle_uncaught_exception ("app"), or Flask's
\* own 500 page ("api", which registers no handler).
ErrorResponse(c, e) ==
    IF c = "app"
    THEN [code |-> 500,
          body |-> [error |-> "Internal Server Error (DEBUG MODE - PLEASE SHARE THIS TRACEBACK)",
                    message |-> e]]
    ELSE [code |-> 500, body |-> [error |-> "Internal Server Error"]]

Init ==
    /\ pc = "idle"
    /\ copy = "app"
    /\ endpoint = "none"
    /\ remote = NoRemote
    /\ backend = <<>>
    /\ calls = <<>>
    /\ symbols_to_fetch = NoList
    /\ idx = 0
    /\ results = <<>>
    /\ response = NoResponse
    /\ symbol = ""
    /\ answer = NoAnswer
    /\ snapshot = NoSnapshot
    /\ prev = NoResponse
    /\ served = 0

\* A GET of /api/historical/NIFTY50 or /api/historical/SENSEX arrives at one of
\* the two applications; the remote source and the backend are as the
\* environment has them for this request.
Request ==
    /\ pc = "idle"
    /\ served = 0
    /\ copy' \in {"app", "api"}
    /\ \/ endpoint' = "NIFTY50" /\ remote' \in RemoteOutcomes
       \/ endpoint' = "SENSEX" /\ remote' = NoRemote
    /\ backend' \in Patterns
    /\ calls' = <<>>
    /\ response' = NoResponse
    /\ pc' = "resolve"
    /\ UNCHANGED <<symbols_to_fetch, idx, results, symbol, answer, snapshot, prev,
                   served>>

\* The same endpoint is called again, the remote source and the backend
\* answering as they did for the request before.
Repeat ==
    /\ pc = "idle"
    /\ served > 0
    /\ served < MaxRequests
    /\ calls' = <<>>
    /\ response' = NoResponse
    /\ pc' = "resolve"
    /\ UNCHANGED <<copy, endpoint, remote, backend, symbols_to_fetch, idx, results,
                   symbol, answer, snapshot, prev, served>>

\* Variant: results is a list that outlives the request and is not emptied.
ResultsKept(old) == old

\* results = []
NewResults(old) == <<>>

\* Variant: the record is put in front of the list.
ResultsPrepend(res, rec) == <<rec>> \o res

\* results.append(data)
ResultsAppend(res, rec) == Append(res, rec)

\* symbols_to_fetch = get_nifty_50_symbols() / get_sensex_30_symbols()
Resolve ==
    /\ pc = "resolve"
    /\ symbols_to_fetch' = IF endpoint = "NIFTY50"
                           THEN get_nifty_50_symbols(copy, remote)
                           ELSE get_sensex_30_symbols
    /\ results' = NewResults(results)
    /\ idx' = 1
    /\ pc' = IF UsesWarningBranch(copy, endpoint, symbols_to_fetch'.v)
             THEN "warning" ELSE "loop"
    /\ UNCHANGED <<copy, endpoint, remote, backend, calls, response, symbol, answer,
                   snapshot, prev, served>>

\* One iteration of `for symbol in symbols_to_fetch`: one fetch, kept when its
\* lastPrice is not None.
LoopStep ==
    /\ pc = "loop"
    /\ idx <= Len(symbols_to_fetch.v)
    /\ LET sym == symbols_to_fetch.v[idx]
           ans == BackendAnswer(backend, calls)
           data == FetchSingleStockMetrics(copy, sym, ans)
       IN  /\ symbol' = sym
           /\ answer' = ans
           /\ snapshot' = data
           /\ calls' = Append(calls, sym)
           /\ IF data.exc # "none"
              THEN /\ response' = ErrorResponse(copy, data.exc)
                   /\ pc' = "done"
                   /\ UNCHANGED <<results, idx>>
              ELSE /\ results' = IF data.ret.lastPrice # None
                                 THEN ResultsAppend(results, data.ret) ELSE results
                   /\ idx' = idx + 1
                   /\ UNCHANGED <<response, pc>>
    /\ UNCHANGED <<copy, endpoint, remote, backend, symbols_to_fetch, prev, served>>

\* The loop is over: return jsonify({"status": "success", ...}).
Respond ==
    /\ pc = "loop"
    /\ idx > Len(symbols_to_fetch.v)
    /\ response' = SuccessResponse(endpoint, symbols_to_fetch.v, results)
    /\ pc' = "done"
    /\ UNCHANGED <<copy, endpoint, remote, backend, calls, symbols_to_fetch, idx,
                   results, symbol, answer, snapshot, prev, served>>

\* One element of the warning branch's comprehension
\*   [fetch(symbol) for symbol in symbols_to_fetch if fetch(symbol)['lastPrice'] is not None]
\* the condition's fetch comes first; when it passes, a second fetch of the same
\* symbol supplies the element.
WarningStep ==
    /\ pc = "warning"
    /\ idx <= Len(symbols_to_fetch.v)
    /\ LET sym == symbols_to_fetch.v[idx]
           ans1 == BackendAnswer(backend, calls)
           cond == FetchSingleStockMetrics(copy, sym, ans1)
           calls1 == Append(calls, sym)
           ans2 == BackendAnswer(backend, calls1)
           elem == FetchSingleStockMetrics(copy, sym, ans2)
       IN  /\ symbol' = sym
           /\ IF cond.exc # "none"
              THEN /\ response' = ErrorResponse(copy, cond.exc)
                   /\ pc' = "done"
                   /\ answer' = ans1
                   /\ snapshot' = cond
                   /\ calls' = calls1
                   /\ UNCHANGED <<results, idx>>
              ELSE IF cond.ret.lastPrice = None
              THEN /\ answer' = ans1
                   /\ snapshot' = cond
                   /\ calls' = calls1
                   /\ idx' = idx + 1
                   /\ UNCHANGED <<results, response, pc>>
              ELSE IF elem.exc # "none"
              THEN /\ response' = ErrorResponse(copy, elem.exc)
                   /\ pc' = "done"
                   /\ answer' = ans2
                   /\ snapshot' = elem
                   /\ calls' = Append(calls1, sym)
                   /\ UNCHANGED <<results, idx>>
              ELSE /\ answer' = ans2
                   /\ snapshot' = elem
                   /\ calls' = Append(calls1, sym)
                   /\ results' = ResultsAppend(results, elem.ret)
                   /\ idx' = idx + 1
                   /\ UNCHANGED <<response, pc>>
    /\ UNCHANGED <<copy, endpoint, remote, backend, symbols_to_fetch, prev, served>>

\* The comprehension is over: return jsonify({"status": "warning", ...}), 200.
WarningRespond ==
    /\ pc = "warning"
    /\ idx > Len(symbols_to_fetch.v)
    /\ response' = WarningResponse(results)
    /\ pc' = "done"
    /\ UNCHANGED <<copy, endpoint, remote, backend, calls, symbols_to_fetch, idx,
                   results, symbol, answer, snapshot, prev, served>>

\* The response has been sent and the caller keeps it; the application waits
\* for the next request.  Nothing of the finished request is reset here: what the
\* next request starts from is decided by the code that serves it.
Finish ==
    /\ pc = "done"
    /\ pc' = "idle"
    /\ prev' = response
    /\ served' = served + 1
    /\ UNCHANGED <<copy, endpoint, remote, backend, calls, symbols_to_fetch, idx,
                   results, response, symbol, answer, snapshot>>

Next ==
    \/ Request
    \/ Repeat
    \/ Resolve
    \/ LoopStep
    \/ Respond
    \/ WarningStep
    \/ WarningRespond
    \/ Finish

Spec == Init /\ [][Next]_vars

\* ------------------------------------------ properties of the reports
\* A report has been returned to the caller.
Reported == pc = "done" /\ response.code = 200

\* The NIFTY 50 resolver failed its remote fetch during this request.
RemoteFailed == endpoint = "NIFTY50" /\ remote.k \in RemoteFailures

\* C3 (as claimed): every element of the data list of every report, the
\* warning report included, has a non-null lastPrice, also when the backend
\* answers two consecutive calls for one symbol differently.
C3_ItemsHaveLastPrice ==
    Reported =>
        \A i \in 1..Len(response.body.data) : response.body.data[i].lastPrice # None

\* C4 (as claimed): every report carries total_constituents = length of the
\* resolved list and total_stocks_fetched = length of its data list, with
\* 0 <= total_stocks_fetched <= total_constituents, whichever source was used.
C4_CountsMatchLists ==
    Reported =>
        /\ "total_constituents" \in DOMAIN response.body
        /\ "total_stocks_fetched" \in DOMAIN response.body
        /\ response.body.total_constituents = Len(symbols_to_fetch.v)
        /\ response.body.total_stocks_fetched = Len(response.body.data)
        /\ 0 <= response.body.total_stocks_fetched
        /\ response.body.total_stocks_fetched <= response.body.total_constituents

SymbolsOf(items) == [i \in 1..Len(items) |-> items[i].symbol]

\* s can be obtained from t by deleting elements, the order of the rest kept.
RECURSIVE IsSubsequence(_, _)
IsSubsequence(s, t) ==
    IF s = <<>> THEN TRUE
    ELSE IF t = <<>> THEN FALSE
    ELSE IF Head(s) = Head(t) THEN IsSubsequence(Tail(s), Tail(t))
    ELSE IsSubsequence(s, Tail(t))

\* C11: in every report the symbols of the data list are an order-preserving
\* subsequence of the resolved constituent list, whichever symbols fail; the
\* same holds of the list under construction after every fetch.
C11_DataIsSubsequenceOfList ==
    /\ pc \in {"loop", "warning"} =>
           IsSubsequence(SymbolsOf(results), symbols_to_fetch.v)
    /\ Reported =>
           IsSubsequence(SymbolsOf(response.body.data), symbols_to_fetch.v)

\* C11 witness: a report of two different symbols where a symbol between them
\* in the list failed and was left out.
C11_Witness ==
    /\ Reported
    /\ Len(symbols_to_fetch.v) = 3
    /\ Len(response.body.data) = 2
    /\ response.body.data[1].symbol = symbols_to_fetch.v[1]
    /\ response.body.data[2].symbol = symbols_to_fetch.v[3]
    /\ symbols_to_fetch.v[1] # symbols_to_fetch.v[3]

\* C14: whatever the resolver and the per-symbol backend do, a finished
\* aggregation request has returned HTTP 200 with status "success" or
\* "warning"; the 500 handler is never reached and the status is never "error".
C14_AlwaysReports200 ==
    pc = "done" =>
        /\ response.code = 200
        /\ response.body.status \in {"success", "warning"}

\* C14 witness: the remote fetch failed and the backend was down for every
\* symbol, and the request still returned a 200 report, with nothing in it.
C14_Witness ==
    /\ pc = "done"
    /\ RemoteFailed
    /\ backend = <<DownAnswer>>
    /\ Len(calls) >= 7
    /\ response.code = 200
    /\ response.body.data = <<>>

\* C15 (as claimed): when a request has reported, the per-symbol fetch has been
\* invoked exactly once for each element of the resolved list, in list order,
\* on the loop path and on the warning path alike.
C15_OneFetchPerElement ==
    Reported => calls = symbols_to_fetch.v

\* C17: a request repeated with the remote source and the backend answering as
\* before returns a report whose data list equals that of the report before, in
\* order and in every field.
C17_RepeatedRequestSameData ==
    (Reported /\ served > 0) =>
        /\ prev.code = 200
        /\ response.body.data = prev.body.data

\* C17 witness: a repeated request has reported the same two or more items as
\* the request before it.
C17_Witness ==
    /\ Reported
    /\ served > 0
    /\ prev.code = 200
    /\ Len(prev.body.data) >= 2
    /\ response.body.data = prev.body.data

\* C18: in src/api/index_api.py the NIFTY 50 report is "warning" exactly when
\* the resolved list is empty or is the seven fallback symbols element for
\* element, whether or not the remote fetch succeeded, and "success" otherwise.
C18_WarningFromListContentOnly ==
    (Reported /\ copy = "api" /\ endpoint = "NIFTY50") =>
        /\ response.body.status \in {"warning", "success"}
        /\ response.body.status = "warning" <=>
               \/ Len(symbols_to_fetch.v) = 0
               \/ symbols_to_fetch.v =
                      <<"RELIANCE", "HDFCBANK", "TCS", "ICICIBANK", "INFY",
                        "KOTAKBANK", "HINDUNILVR">>

\* C18 witness: the remote fetch succeeded with exactly the seven fallback
\* symbols and the report is a warning.
C18_Witness ==
    /\ Reported
    /\ copy = "api"
    /\ endpoint = "NIFTY50"
    /\ remote.k = "ok"
    /\ Len(symbols_to_fetch.v) = 7
    /\ response.body.status = "warning"

\* ------------------------------------------ uniqueness within the lists
\* No element of the sequence occurs at two positions.
NoDuplicates(seq) == \A i, j \in 1..Len(seq) : seq[i] = seq[j] => i = j

\* C12 (as claimed): a list returned by a resolver has no symbol twice, given
\* that the remote source (where one is read) lists no symbol twice; and
\* get_sensex_30_symbols returns 30 symbols, none of them twice.
C12_ListsHaveUniqueSymbols ==
    (pc = "returned" /\ symbols_to_fetch.t = "list") =>
        /\ (endpoint = "NIFTY50" /\ remote.k = "ok" /\ NoDuplicates(remote.symbols))
               => NoDuplicates(symbols_to_fetch.v)
        /\ (endpoint = "NIFTY50" /\ remote.k # "ok") => NoDuplicates(symbols_to_fetch.v)
        /\ endpoint = "SENSEX" => /\ Len(symbols_to_fetch.v) = 30
                                  /\ NoDuplicates(symbols_to_fetch.v)

\* ------------------------------------------ the price and its history fallback
\* The info record's last-close value (None: it has none).
InfoClose == InfoLastPrice(answer.info)

\* The price the call works with: the info record's last-close value, else the
\* close of the latest history row, else None.
PriceOfInputs ==
    IF InfoClose # None THEN InfoClose
    ELSE IF answer.history.k = "rows" THEN answer.history.close
    ELSE None

\* C16 (as claimed): the history request is issued only when the info record
\* has no last-close value; then lastPrice is the close of the latest history
\* row, and null when the history is empty; when the info record has a
\* last-close value, that value is the lastPrice and no history request is made.
C16_LastPriceIsCloseOrInfoValue ==
    ReturnedFromDict =>
        /\ snapshot.requests # <<>> => InfoClose = None
        /\ (InfoClose = None /\ answer.history.k = "rows")
               => snapshot.ret.lastPrice = answer.history.close
        /\ (InfoClose = None /\ answer.history.k = "empty")
               => snapshot.ret.lastPrice = None
        /\ InfoClose # None => /\ snapshot.ret.lastPrice = InfoClose
                               /\ snapshot.requests = <<>>

\* C16 (amended): one history request (period 1d, timeout at most 15 s) is
\* issued exactly when the info record has no last-close value; the price is the
\* info record's last-close value when it has one, else the close of the latest
\* history row, else null.  When no step of the call raises, lastPrice is that
\* price rounded to two decimals, and null when the price is null or 0; when a
\* step raises, lastPrice is null.
C16_LastPriceIsRoundedPriceUnlessRaised ==
    ReturnedFromDict =>
        /\ snapshot.requests # <<>> <=> InfoClose = None
        /\ snapshot.requests # <<>> =>
               /\ Len(snapshot.requests) = 1
               /\ snapshot.requests[1].ticker = <<symbol, ".NS">>
               /\ snapshot.requests[1].period = "1d"
               /\ snapshot.requests[1].timeout <= 15
        /\ BodyException = "none" =>
               snapshot.ret.lastPrice =
                   IF PriceOfInputs = None \/ PriceOfInputs = Num(0) THEN None
                   ELSE IF IsNum(PriceOfInputs) THEN Num(Round2(PriceOfInputs.n))
                   ELSE PriceOfInputs
        /\ BodyException # "none" => snapshot.ret.lastPrice = None

\* C16 witness: the info record had neither last-close field, the history was
\* requested and its latest close became the lastPrice.
C16_Witness ==
    /\ ReturnedFromDict
    /\ answer.info.previousClose = Absent
    /\ answer.info.regularMarketPreviousClose = Absent
    /\ answer.history.k = "rows"
    /\ Len(snapshot.requests) = 1
    /\ snapshot.ret.lastPrice = Num(100000)

\* ------------------------------------------ fetch_live_quote_data (stock_api.py)
\* A JSON object of the quote document: a dict with the listed keys, where a
\* key that is missing holds Absent.
Dict(fields) == [t |-> "dict", f |-> fields]

\* d[key]: [exc, v]
Subscript(d, key) ==
    IF d.t # "dict" THEN [exc |-> "TypeError", v |-> None]
    ELSE IF key \notin DOMAIN d.f \/ d.f[key] = Absent
    THEN [exc |-> "KeyError", v |-> None]
    ELSE [exc |-> "none", v |-> d.f[key]]

\* d[section][key]: [exc, v]
Subscript2(d, section, key) ==
    LET sec == Subscript(d, section)
    IN  IF sec.exc # "none" THEN sec ELSE Subscript(sec.v, key)

\* a * b of two JSON values: [exc, v]
Times(a, b) ==
    IF IsNum(a) /\ IsNum(b)
    THEN [exc |-> "none", v |-> Num((a.n * b.n) \div 1000)]
    ELSE [exc |-> "TypeError", v |-> None]

\* `not data or 'info' not in data or data['info'].get('symbol') is None`:
\* "true", "false", or the exception the test raises.  (The empty dict is the
\* dict with every key missing: both `not data` and `'info' not in data` hold.)
NoQuoteInDocument(data) ==
    CASE data.t = "none" -> "true"
      [] data.t = "num" -> "TypeError"
      [] data.t = "dict" ->
             IF data.f["info"] = Absent THEN "true"
             ELSE IF data.f["info"].t # "dict" THEN "AttributeError"
             ELSE IF data.f["info"].f["symbol"] \in {Absent, None} THEN "true"
             ELSE "false"

\* The first exception among the evaluations of the dict display, in order.
RECURSIVE FirstException(_)
FirstException(evals) ==
    IF evals = <<>> THEN "none"
    ELSE IF Head(evals).exc # "none" THEN Head(evals).exc
    ELSE FirstException(Tail(evals))

\* quote = {...}: [exc, ret]
BuildQuote(data) ==
    LET sym == Subscript2(data, "info", "symbol")
        companyName == Subscript2(data, "info", "companyName")
        lastPrice == Subscript2(data, "priceInfo", "lastPrice")
        change == Subscript2(data, "priceInfo", "change")
        pChange == Subscript2(data, "priceInfo", "pChange")
        high52Week == Subscript2(data, "securityWisePCR", "high52Week")
        low52Week == Subscript2(data, "securityWisePCR", "low52Week")
        issuedCap == Subscript2(data, "securityInfo", "issuedCap")
        marketCapital == IF issuedCap.exc # "none" THEN issuedCap
                         ELSE Times(issuedCap.v, lastPrice.v)
        industry == Subscript2(data, "metadata", "industry")
        e == FirstException(<<sym, companyName, lastPrice, change, pChange, high52Week,
                              low52Week, marketCapital, industry>>)
    IN  IF e # "none" THEN [exc |-> e, ret |-> None]
        ELSE [exc |-> "none",
              ret |-> [t |-> "quote",
                       symbol |-> sym.v,
                       companyName |-> companyName.v,
                       lastPrice |-> lastPrice.v,
                       change |-> change.v,
                       pChange |-> pChange.v,
                       high52Week |-> high52Week.v,
                       low52Week |-> low52Week.v,
                       marketCapital |-> marketCapital.v,
                       industry |-> industry.v]]

\* The body of the outer try block: [exc, ret]
QuoteTryBody(sym, ans) ==
    IF ans.warmup \in {"timeout", "connection_error"}
    THEN [exc |-> "RequestException", ret |-> None]
    ELSE IF ans.quote \in {"timeout", "connection_error"}
    THEN [exc |-> "RequestException", ret |-> None]
    ELSE IF ans.status >= 400 THEN [exc |-> "RequestException", ret |-> None]
    ELSE IF ans.body.k = "text" THEN [exc |-> "none", ret |-> None]
    ELSE LET data == ans.body.data
             nothing == NoQuoteInDocument(data)
         IN  IF nothing = "true" THEN [exc |-> "none", ret |-> None]
             ELSE IF nothing # "false" THEN [exc |-> nothing, ret |-> None]
             ELSE BuildQuote(data)

\* Variant: the outer handler is `except requests.exceptions.RequestException`.
QuoteExceptHandlesRequestErrorsOnly(e) == e = "RequestException"

\* `except Exception as e` of fetch_live_quote_data
QuoteExceptHandles(e) ==
    e \in {"RequestException", "KeyError", "TypeError", "AttributeError"}

\* fetch_live_quote_data(symbol): [exc, ret]; ret = None is "no data".
fetch_live_quote_data(sym, ans) ==
    LET b == QuoteTryBody(sym, ans)
    IN  IF b.exc = "none" THEN b
        ELSE IF QuoteExceptHandles(b.exc) THEN [exc |-> "none", ret |-> None]
        ELSE b

\* What the NSE quote endpoint may answer.
InfoSections ==
    {Absent, None} \cup
    {Dict([symbol |-> a, companyName |-> b]) :
        a \in {Absent, None, Str(<<"RELIANCE">>)},
        b \in {Absent, Str(<<"Reliance Industries Limited">>)}}

PriceSections ==
    {Absent, None} \cup
    {Dict([lastPrice |-> a, change |-> b, pChange |-> c]) :
        a \in {Absent, None, Num(150000)}, b \in {Absent, Num(1500)},
        c \in {Absent, Num(1010)}}

PCRSections ==
    {Absent, None} \cup
    {Dict([high52Week |-> a, low52Week |-> b]) :
        a \in {Absent, Num(200000)}, b \in {Absent, Num(100000)}}

SecuritySections ==
    {Absent, None} \cup {Dict([issuedCap |-> a]) : a \in {Absent, None, Num(2000)}}

MetaSections ==
    {Absent, None} \cup {Dict([industry |-> a]) : a \in {Absent, Str(<<"Refineries">>)}}

\* response.json(): null, a number, or an object.
QuoteDocuments ==
    {None, Num(5000)} \cup
    {Dict([info |-> i, priceInfo |-> p, securityWisePCR |-> w, securityInfo |-> c,
           metadata |-> m]) :
        i \in InfoSections, p \in PriceSections, w \in PCRSections,
        c \in SecuritySections, m \in MetaSections}

\* The response body: text that is no JSON (market closed), or a JSON document.
QuoteBodies == {[k |-> "text"]} \cup {[k |-> "json", data |-> d] : d \in QuoteDocuments}

\* The warm-up request, the quote request, its HTTP status and its body.  The
\* status of the warm-up response is not looked at by the code.
QuoteAnswers ==
    {[warmup |-> w, quote |-> "ok", status |-> 200, body |-> b] :
        w \in {"ok", "http_error"}, b \in QuoteBodies}
    \cup
    {[warmup |-> w, quote |-> q, status |-> st, body |-> [k |-> "text"]] :
        w \in {"ok", "http_error", "timeout", "connection_error"},
        q \in {"ok", "timeout", "connection_error"},
        st \in {200, 404, 503}}

InitQuote ==
    /\ pc = "call"
    /\ copy = "stock"
    /\ symbol \in FetchSymbols
    /\ answer \in QuoteAnswers
    /\ snapshot = NoSnapshot
    /\ endpoint = "none"
    /\ remote = NoRemote
    /\ backend = <<>>
    /\ calls = <<>>
    /\ symbols_to_fetch = NoList
    /\ idx = 0
    /\ results = <<>>
    /\ response = NoResponse
    /\ prev = NoResponse
    /\ served = 0

QuoteCall ==
    /\ pc = "call"
    /\ snapshot' = fetch_live_quote_data(symbol, answer)
    /\ pc' = "returned"
    /\ UNCHANGED <<copy, endpoint, remote, backend, calls, symbols_to_fetch, idx,
                   results, response, symbol, answer, prev, served>>

NextQuote == QuoteCall

SpecQuote == InitQuote /\ [][NextQuote]_vars

\* data[section][key] exists in the parsed document of the call.
PathPresent(section, key) ==
    /\ answer.body.k = "json"
    /\ answer.body.data.t = "dict"
    /\ answer.body.data.f[section].t = "dict"
    /\ answer.body.data.f[section].f[key] # Absent

\* The field paths the quote is mapped from.
MappedPaths ==
    {<<"info", "symbol">>, <<"info", "companyName">>, <<"priceInfo", "lastPrice">>,
     <<"priceInfo", "change">>, <<"priceInfo", "pChange">>,
     <<"securityWisePCR", "high52Week">>, <<"securityWisePCR", "low52Week">>,
     <<"securityInfo", "issuedCap">>, <<"metadata", "industry">>}

\* One of the cases in which the call is to return "no data".
NoDataCase ==
    \/ answer.warmup \in {"timeout", "connection_error"}
    \/ answer.quote \in {"timeout", "connection_error"}
    \/ answer.status \notin 200..299
    \/ answer.body.k = "text"
    \/ \E path \in MappedPaths : ~PathPresent(path[1], path[2])

====
